---------------------------- MODULE Spec2Model ----------------------------
(***************************************************************************)
(* Model of server.py: a static asset server built from                    *)
(* http.server.SimpleHTTPRequestHandler and socketserver.TCPServer.        *)
(*                                                                         *)
(* server.py is a module executed top to bottom: line 5 parses PORT, lines *)
(* 7-18 define CORSHandler (its extensions_map and end_headers), line 20   *)
(* constructs the TCPServer (bind + listen), line 21 prints the banner and *)
(* line 22 runs serve_forever.  The behaviour the 22 lines inherit from    *)
(* the standard library (CPython 3.11 http/server.py, socketserver.py) is  *)
(* modelled by the operators below, each named after the method it models.*)
(*                                                                         *)
(* Strings that the code takes apart (the PORT value, URL paths, file      *)
(* extensions) are sequences of one-character strings.                     *)
(***************************************************************************)
EXTENDS Integers, Sequences, FiniteSets, TLC

\* Connections the clients open during one run.
MaxConns == 3

\* os.environ.get("PORT", 10000): the default of line 5.
DefaultPort == 10000

\* The port the operating system hands out for bind(("", 0)).
EphemeralPort == 49152

\* socket.bind accepts ports 0..65535 and raises OverflowError otherwise.
MaxPortNumber == 65535

-----------------------------------------------------------------------------
(* Character helpers *)

Digits == <<"0", "1", "2", "3", "4", "5", "6", "7", "8", "9">>

IsDigit(c) == \E i \in 1..Len(Digits) : Digits[i] = c

DigitVal(c) == (CHOOSE i \in 1..Len(Digits) : Digits[i] = c) - 1

IsSpace(c) == c \in {" ", "\t", "\n", "\r"}

Upper == <<"A", "B", "C", "D", "E", "F", "G", "H", "I", "J", "K", "L", "M",
           "N", "O", "P", "Q", "R", "S", "T", "U", "V", "W", "X", "Y", "Z">>
Lower == <<"a", "b", "c", "d", "e", "f", "g", "h", "i", "j", "k", "l", "m",
           "n", "o", "p", "q", "r", "s", "t", "u", "v", "w", "x", "y", "z">>

\* str.lower() on one character.
LowerChar(c) ==
    IF \E i \in 1..Len(Upper) : Upper[i] = c
    THEN Lower[CHOOSE i \in 1..Len(Upper) : Upper[i] = c]
    ELSE c

\* str.lower()
StrLower(s) == [i \in 1..Len(s) |-> LowerChar(s[i])]

RECURSIVE LStrip(_)
LStrip(s) == IF s # <<>> /\ IsSpace(Head(s)) THEN LStrip(Tail(s)) ELSE s

RECURSIVE RStrip(_)
RStrip(s) ==
    IF s # <<>> /\ IsSpace(s[Len(s)]) THEN RStrip(SubSeq(s, 1, Len(s) - 1)) ELSE s

-----------------------------------------------------------------------------
(* Line 5: PORT = int(os.environ.get("PORT", 10000)) *)

\* The digits of an int() literal: digits, single underscores between them.
RECURSIVE DigitsValue(_, _, _)
DigitsValue(s, acc, prevDigit) ==
    IF s = <<>> THEN [ok |-> prevDigit, val |-> acc]
    ELSE IF IsDigit(Head(s)) THEN DigitsValue(Tail(s), acc * 10 + DigitVal(Head(s)), TRUE)
    ELSE IF Head(s) = "_" /\ prevDigit THEN DigitsValue(Tail(s), acc, FALSE)
    ELSE [ok |-> FALSE, val |-> 0]

\* int(str): surrounding whitespace stripped, an optional sign, decimal
\* digits.  ok = FALSE stands for ValueError.
PyInt(s) ==
    LET t == RStrip(LStrip(s))
        neg == t # <<>> /\ Head(t) = "-"
        body == IF t # <<>> /\ Head(t) \in {"-", "+"} THEN Tail(t) ELSE t
        d == DigitsValue(body, 0, FALSE)
    IN  IF d.ok THEN [ok |-> TRUE, val |-> IF neg THEN 0 - d.val ELSE d.val]
        ELSE [ok |-> FALSE, val |-> 0]

\* The values of the PORT environment variable explored.
EnvUnset == [set |-> FALSE, val |-> <<>>]
EnvOf(s) == [set |-> TRUE, val |-> s]

PortEnvValues ==
    { EnvUnset,
      EnvOf(<<"8", "0", "8", "0">>),
      EnvOf(<<"8", "0">>),
      EnvOf(<<"0">>),
      EnvOf(<<"7", "0", "0", "0", "0">>),
      EnvOf(<<"n", "o", "t", "a", "n", "u", "m", "b", "e", "r">>),
      EnvOf(<<>>) }

\* A start-up that falls back to the default port on an unparseable value.
ParsePortFallback(env) ==
    IF env.set /\ PyInt(env.val).ok THEN PyInt(env.val)
    ELSE [ok |-> TRUE, val |-> DefaultPort]

\* os.environ.get("PORT", 10000) followed by int(): the default is already
\* an int, a set value is parsed.
ParsePort(env) == IF env.set THEN PyInt(env.val) ELSE [ok |-> TRUE, val |-> DefaultPort]

-----------------------------------------------------------------------------
(* Paths and the served root *)

\* str.rfind(c), 1-based; 0 when c does not occur.
RFind(s, c) ==
    IF \E i \in 1..Len(s) : s[i] = c
    THEN CHOOSE i \in 1..Len(s) : s[i] = c /\ \A j \in (i + 1)..Len(s) : s[j] # c
    ELSE 0

\* str.find(c), 1-based; 0 when c does not occur.
Find(s, c) ==
    IF \E i \in 1..Len(s) : s[i] = c
    THEN CHOOSE i \in 1..Len(s) : s[i] = c /\ \A j \in 1..(i - 1) : s[j] # c
    ELSE 0

\* s.split(c, 1)[0]
Before(s, c) == IF Find(s, c) = 0 THEN s ELSE SubSeq(s, 1, Find(s, c) - 1)

EndsWithSlash(s) == s # <<>> /\ s[Len(s)] = "/"

\* s.split('/'): the components between slashes, empty ones included.
RECURSIVE SplitSlash(_)
SplitSlash(s) ==
    IF Find(s, "/") = 0 THEN <<s>>
    ELSE <<SubSeq(s, 1, Find(s, "/") - 1)>> \o SplitSlash(SubSeq(s, Find(s, "/") + 1, Len(s)))

Dot == <<".">>
DotDot == <<".", ".">>

\* posixpath.normpath's loop over the components.
RECURSIVE NormComps(_, _, _)
NormComps(comps, new, rooted) ==
    IF comps = <<>> THEN new
    ELSE LET c == Head(comps)
         IN  IF c = <<>> \/ c = Dot THEN NormComps(Tail(comps), new, rooted)
             ELSE IF c # DotDot \/ (~rooted /\ new = <<>>)
                       \/ (new # <<>> /\ new[Len(new)] = DotDot)
                  THEN NormComps(Tail(comps), Append(new, c), rooted)
             ELSE IF new # <<>>
                  THEN NormComps(Tail(comps), SubSeq(new, 1, Len(new) - 1), rooted)
             ELSE NormComps(Tail(comps), new, rooted)

\* translate_path's loop: os.path.join(path, word) for every word that is a
\* simple name; the served root (self.directory) is the empty prefix.
RECURSIVE JoinWords(_, _)
JoinWords(path, words) ==
    IF words = <<>> THEN path
    ELSE IF Head(words) = <<>> \/ Head(words) = Dot \/ Head(words) = DotDot
         THEN JoinWords(path, Tail(words))
         ELSE JoinWords(path \o <<"/">> \o Head(words), Tail(words))

\* SimpleHTTPRequestHandler.translate_path: query and fragment dropped, the
\* path normalised, its words joined under the served root, an explicit
\* trailing slash kept.  (No target explored holds a %-escape, so unquote
\* leaves it as it is.)
translate_words(p, path) ==
    IF EndsWithSlash(RStrip(p)) THEN path \o <<"/">> ELSE path

translate_plain(p) ==
    translate_words(p, JoinWords(<<>>, NormComps(SplitSlash(p), <<>>, p # <<>> /\ Head(p) = "/")))

translate_path(target) == translate_plain(Before(Before(target, "?"), "#"))

\* posixpath.splitext(path)[1]: the text from the last dot of the last
\* component, unless that component's name is only leading dots before it.
splitext_at(p, sepIndex, dotIndex) ==
    IF dotIndex > sepIndex
       /\ \E k \in (sepIndex + 1)..(dotIndex - 1) : p[k] # "."
    THEN SubSeq(p, dotIndex, Len(p))
    ELSE <<>>

splitext_ext(p) == splitext_at(p, RFind(p, "/"), RFind(p, "."))

RECURSIVE StripSlashes(_)
StripSlashes(p) == IF EndsWithSlash(p) THEN StripSlashes(SubSeq(p, 1, Len(p) - 1)) ELSE p

\* Names under the served root.
F_model == <<"/", "m", ".", "g", "l", "b">>
F_scene == <<"/", "s", ".", "g", "l", "t", "f">>
F_data == <<"/", "d", ".", "b", "i", "n">>
F_upper == <<"/", "M", ".", "G", "L", "B">>
F_notes == <<"/", "n", ".", "t", "x", "t">>
F_secret == <<"/", "x", ".", "g", "l", "b">>
F_odd == <<"/", "u", ".", "q", "q">>
F_dotfile == <<"/", ".", "b", "i", "n">>
D_assets == <<"/", "a">>
D_site == <<"/", "w">>
D_locked == <<"/", "k">>
IndexHtml == <<"i", "n", "d", "e", "x", ".", "h", "t", "m", "l">>
IndexHtm == <<"i", "n", "d", "e", "x", ".", "h", "t", "m">>
F_index == D_site \o <<"/">> \o IndexHtml
F_missing == <<"/", "z", ".", "g", "l", "b">>

File(bytes, readable) == [kind |-> "file", perm |-> readable, data |-> bytes, mtime |-> 5]
Dir(readable) == [kind |-> "dir", perm |-> readable, data |-> <<>>, mtime |-> 5]

\* The served root: the process's working directory.  model.glb holds
\* arbitrary binary content; x.glb and the directory k deny access.
ServedRoot ==
    (<<>> :> Dir(TRUE))
    @@ (F_model :> File(<<71, 76, 84, 70, 2>>, TRUE))
    @@ (F_scene :> File(<<123, 125>>, TRUE))
    @@ (F_data :> File(<<0, 255>>, TRUE))
    @@ (F_upper :> File(<<71, 76>>, TRUE))
    @@ (F_notes :> File(<<104, 105>>, TRUE))
    @@ (F_secret :> File(<<9>>, FALSE))
    @@ (F_odd :> File(<<>>, TRUE))
    @@ (F_dotfile :> File(<<7>>, TRUE))
    @@ (D_assets :> Dir(TRUE))
    @@ (D_site :> Dir(TRUE))
    @@ (F_index :> File(<<60, 62>>, TRUE))
    @@ (D_locked :> Dir(FALSE))

\* os.path.isdir(path)
isdir(fsys, path) ==
    StripSlashes(path) \in DOMAIN fsys /\ fsys[StripSlashes(path)].kind = "dir"

\* os.path.isfile(path): stat fails below a directory that denies access.
isfile(fsys, dir, name) ==
    LET d == StripSlashes(dir)
        p == d \o <<"/">> \o name
    IN  /\ d \in DOMAIN fsys /\ fsys[d].perm
        /\ p \in DOMAIN fsys /\ fsys[p].kind = "file"

\* open(path, 'rb') succeeds (no OSError).
can_open(fsys, path) ==
    path \in DOMAIN fsys /\ fsys[path].kind = "file" /\ fsys[path].perm

\* A listdir that never fails.
can_list_any(fsys, path) == TRUE

\* os.listdir(path) succeeds (no OSError).
can_list(fsys, path) ==
    StripSlashes(path) \in DOMAIN fsys /\ fsys[StripSlashes(path)].perm

-----------------------------------------------------------------------------
(* The MIME type tables *)

E_gltf == <<".", "g", "l", "t", "f">>
E_glb == <<".", "g", "l", "b">>
E_bin == <<".", "b", "i", "n">>
E_txt == <<".", "t", "x", "t">>
E_html == <<".", "h", "t", "m", "l">>
E_gz == <<".", "g", "z">>
E_Z == <<".", "Z">>
E_bz2 == <<".", "b", "z", "2">>
E_xz == <<".", "x", "z">>

\* http.server.SimpleHTTPRequestHandler.extensions_map, which line 9 spreads.
BaseExtensionsMap ==
    (E_gz :> "application/gzip")
    @@ (E_Z :> "application/octet-stream")
    @@ (E_bz2 :> "application/x-bzip2")
    @@ (E_xz :> "application/x-xz")

\* Lines 10-12.
GltfOverrides ==
    (E_gltf :> "model/gltf+json")
    @@ (E_glb :> "model/gltf-binary")
    @@ (E_bin :> "application/octet-stream")

\* {**base, k: v, ...}: the later keys win.
DictMerge(base, over) ==
    [e \in DOMAIN base \cup DOMAIN over |-> IF e \in DOMAIN over THEN over[e] ELSE base[e]]

\* A class body that forgets to spread the inherited table.
ClassExtensionsMapNoSpread == GltfOverrides

\* Lines 8-13: CORSHandler.extensions_map.
ClassExtensionsMap == DictMerge(BaseExtensionsMap, GltfOverrides)

\* mimetypes' table (types_map), as the platform provides it: one that knows
\* the glTF types, and one site table that does not know .glb and maps .gltf
\* and .bin differently.
TypesModern ==
    (E_txt :> "text/plain") @@ (E_html :> "text/html")
    @@ (E_gltf :> "model/gltf+json") @@ (E_glb :> "model/gltf-binary")
    @@ (E_bin :> "application/octet-stream")
TypesSite ==
    (E_txt :> "text/plain") @@ (E_html :> "text/html")
    @@ (E_gltf :> "application/json") @@ (E_bin :> "application/x-binary")
PlatformTables == {TypesModern, TypesSite}

NoGuess == "None"

\* mimetypes.guess_type(path)[0]: the extension, then its lower-case form.
types_lookup(types, ext, lower) ==
    IF ext \in DOMAIN types THEN types[ext]
    ELSE IF lower \in DOMAIN types THEN types[lower]
    ELSE NoGuess

mimetypes_guess_type(types, path) ==
    types_lookup(types, splitext_ext(path), StrLower(splitext_ext(path)))

\* A guess_type that asks mimetypes before the handler's own table.
lookup_platform_first(map, ext, lower, guessed) ==
    IF guessed # NoGuess THEN guessed
    ELSE IF ext \in DOMAIN map THEN map[ext]
    ELSE IF lower \in DOMAIN map THEN map[lower]
    ELSE "application/octet-stream"

\* SimpleHTTPRequestHandler.guess_type, reading self.extensions_map.
\* guess_type's lookups: the extension in extensions_map, then its lower-case
\* form, then mimetypes' guess, then the generic binary type.
lookup_type(map, ext, lower, guessed) ==
    IF ext \in DOMAIN map THEN map[ext]
    ELSE IF lower \in DOMAIN map THEN map[lower]
    ELSE IF guessed # NoGuess THEN guessed
    ELSE "application/octet-stream"

guess_type(map, types, path) ==
    lookup_type(map, splitext_ext(path), StrLower(splitext_ext(path)),
          mimetypes_guess_type(types, path))

-----------------------------------------------------------------------------
(* Requests *)

H_none == [ims |-> "absent", imstime |-> 0, inm |-> FALSE, toolarge |-> FALSE]
\* If-Modified-Since before, and at, the files' modification time.
H_stale == [ims |-> "utc", imstime |-> 4, inm |-> FALSE, toolarge |-> FALSE]
H_fresh == [ims |-> "utc", imstime |-> 5, inm |-> FALSE, toolarge |-> FALSE]
H_fresh_inm == [ims |-> "utc", imstime |-> 5, inm |-> TRUE, toolarge |-> FALSE]
H_garbage == [ims |-> "garbage", imstime |-> 0, inm |-> FALSE, toolarge |-> FALSE]
\* A header line over 65536 bytes, or more than 100 headers.
H_toolarge == [ims |-> "absent", imstime |-> 0, inm |-> FALSE, toolarge |-> TRUE]

\* A request as the handler reads it: the request line ("toolong": over
\* 65536 bytes; "eof": the client closed without sending; "text": nwords
\* whitespace-separated words, the first the command, the second the target,
\* the last - when there are three or more - the version vproto/vnums), and
\* the header block.
Req(n, cmd, target, vproto, vnums, hdr) ==
    [line |-> "text", nwords |-> n, command |-> cmd, target |-> target,
     vproto |-> vproto, vnums |-> vnums, hdr |-> hdr]
ReqTooLong == [Req(3, "GET", F_model, "HTTP", <<1, 1>>, H_none) EXCEPT !.line = "toolong"]
ReqEOF == [Req(0, "", <<>>, "", <<>>, H_none) EXCEPT !.line = "eof"]
ReqBlank == Req(0, "", <<>>, "", <<>>, H_none)

Root == <<"/">>
T_query == F_model \o <<"?", "v">>
T_dotdot == D_assets \o <<"/", ".", ".">> \o F_model

Targets ==
    { F_model, F_scene, F_data, F_upper, F_notes, F_secret, F_odd, F_dotfile,
      F_missing, F_index, D_assets, D_site, D_locked, Root, T_query, T_dotdot,
      D_assets \o <<"/">>, D_site \o <<"/">>, D_locked \o <<"/">>, F_model \o <<"/">> }

ReadMethods == {"GET", "HEAD"}
OtherMethods == {"POST", "PUT", "DELETE"}

Requests ==
    { Req(3, m, t, "HTTP", <<1, 1>>, h) :
        m \in ReadMethods, t \in Targets,
        h \in {H_none, H_stale, H_fresh, H_fresh_inm, H_garbage} }
    \cup { Req(3, m, t, "HTTP", <<1, 0>>, H_toolarge) :
             m \in {"GET", "HEAD", "POST"}, t \in {F_model, F_missing} }
    \cup { Req(3, m, t, "HTTP", <<1, 0>>, H_none) :
             m \in ReadMethods \cup OtherMethods, t \in {F_model, F_missing, D_assets, F_secret} }
    \cup { Req(2, m, t, "", <<>>, H_none) : m \in {"GET", "HEAD", "POST"}, t \in Targets }
    \cup { Req(n, m, t, "HTTP", v, H_none) :
             n \in {3, 4}, m \in {"GET", "POST"}, t \in {F_model, F_missing},
             v \in {<<0, 9>>, <<1, 1>>, <<2, 0>>, <<1>>} }
    \cup { Req(3, m, F_model, "FOO", <<1, 1>>, H_none) : m \in {"GET", "POST"} }
    \cup { Req(1, m, <<>>, "", <<>>, H_none) : m \in {"GET", "POST"} }
    \cup { ReqTooLong, ReqEOF, ReqBlank }

-----------------------------------------------------------------------------
(* BaseHTTPRequestHandler: the response under construction *)

NoBody == [kind |-> "none", data |-> <<>>]
ErrorPage == [kind |-> "error", data |-> <<>>]
Listing == [kind |-> "listing", data |-> <<>>]
FileBody(bytes) == [kind |-> "file", data |-> bytes]

\* The handler's fields while it answers one request.  buf is
\* _headers_buffer; head is the header block flushed to the socket, with
\* status_line the code of its status line; code is the code given to
\* send_response (and logged); body is what follows the header block.
NewHandler ==
    [request_version |-> "", command |-> "None", path |-> <<>>,
     buf |-> <<>>, flushed |-> FALSE, head |-> <<>>, status_line |-> 0,
     code |-> 0, body |-> NoBody, opened |-> FALSE, ctype |-> ""]

Header(k, v) == [name |-> k, value |-> v]

\* send_response_only: the status line goes to the buffer unless the request
\* is an HTTP/0.9 one.
send_response_only(h, code) ==
    IF h.request_version # "HTTP/0.9" THEN [h EXCEPT !.status_line = code] ELSE h

\* send_header: buffered unless the request is an HTTP/0.9 one.
send_header(h, k, v) ==
    IF h.request_version # "HTTP/0.9" THEN [h EXCEPT !.buf = Append(@, Header(k, v))] ELSE h

\* send_response: log_request(code), the status line, Server and Date.
send_response(h, code) ==
    send_header(
        send_header(send_response_only([h EXCEPT !.code = code], code),
                    "Server", "SimpleHTTP"),
        "Date", "now")

\* BaseHTTPRequestHandler.end_headers, reached through super(): the blank
\* line and flush_headers, unless the request is an HTTP/0.9 one.
base_end_headers(h) ==
    IF h.request_version # "HTTP/0.9"
    THEN [h EXCEPT !.head = h.buf, !.flushed = TRUE, !.buf = <<>>]
    ELSE h

\* An end_headers that adds the CORS header only.
end_headers_no_cache_control(h) ==
    base_end_headers(send_header(h, "Access-Control-Allow-Origin", "*"))

\* Lines 15-18: CORSHandler.end_headers.
end_headers(h) ==
    base_end_headers(
        send_header(send_header(h, "Access-Control-Allow-Origin", "*"),
                    "Cache-Control", "no-cache"))

\* send_error: Connection: close, for a code that carries a body the error
\* page's headers, end_headers, then the page unless the command is HEAD.
error_has_body(code) == code >= 200 /\ code \notin {204, 205, 304}

error_headers(h, code) ==
    IF error_has_body(code)
    THEN send_header(send_header(h, "Content-Type", "text/html;charset=utf-8"),
                     "Content-Length", "len(body)")
    ELSE h

error_body(h, code) ==
    IF h.command # "HEAD" /\ error_has_body(code) THEN [h EXCEPT !.body = ErrorPage] ELSE h

send_error(h, code) ==
    error_body(
        end_headers(
            error_headers(send_header(send_response(h, code), "Connection", "close"), code)),
        code)

VersionString(vnums) ==
    IF vnums = <<0, 9>> THEN "HTTP/0.9"
    ELSE IF vnums = <<1, 0>> THEN "HTTP/1.0"
    ELSE IF vnums = <<1, 1>> THEN "HTTP/1.1"
    ELSE "HTTP/x.y"

\* parse_request: [ok, h].  On failure the error response, if any, is in h.
bad_version(req) == req.nwords >= 3 /\ (req.vproto # "HTTP" \/ Len(req.vnums) # 2)

too_new(req) == req.nwords >= 3 /\ ~bad_version(req) /\ req.vnums[1] >= 2

\* self.request_version = version, reached with three or more words and an
\* acceptable version.
with_version(h, req) ==
    IF req.nwords >= 3 THEN [h EXCEPT !.request_version = VersionString(req.vnums)] ELSE h

\* self.command, self.path = command, path
with_command(h, req) == [h EXCEPT !.command = req.command, !.path = req.target]

\* The code parse_request answers the request line and header block with, 0
\* when it accepts them.  In the order of the code: the version, the number
\* of words, the HTTP/0.9 command, the headers.
parse_error(req) ==
    IF bad_version(req) THEN 400
    ELSE IF too_new(req) THEN 505
    ELSE IF ~(2 <= req.nwords /\ req.nwords <= 3) THEN 400
    ELSE IF req.nwords = 2 /\ req.command # "GET" THEN 400
    ELSE IF req.hdr.toolarge THEN 431
    ELSE 0

\* The handler's fields when parse_request fails with `code`: the version
\* errors are sent before request_version is assigned, the header errors
\* after command and path are.
parse_failure(h, req, code) ==
    IF bad_version(req) \/ too_new(req) THEN send_error(h, code)
    ELSE IF code = 431 THEN send_error(with_command(with_version(h, req), req), code)
    ELSE send_error(with_version(h, req), code)

parse_result(h, req, code) ==
    IF req.nwords = 0 THEN [ok |-> FALSE, h |-> h]
    ELSE IF code # 0 THEN [ok |-> FALSE, h |-> parse_failure(h, req, code)]
    ELSE [ok |-> TRUE, h |-> with_command(with_version(h, req), req)]

parse_request(h0, req) ==
    parse_result([h0 EXCEPT !.command = "None", !.request_version = "HTTP/0.9"],
                 req, parse_error(req))

-----------------------------------------------------------------------------
(* SimpleHTTPRequestHandler *)

\* list_directory: 404 when the directory cannot be listed, else the
\* generated listing as the file object to copy.
list_directory(h, fsys, path) ==
    IF ~can_list(fsys, path) THEN send_error(h, 404)
    ELSE [end_headers(
              send_header(
                  send_header(send_response(h, 200),
                              "Content-type", "text/html; charset=utf-8"),
                  "Content-Length", "len(encoded)"))
          EXCEPT !.opened = TRUE, !.body = Listing, !.ctype = "text/html; charset=utf-8"]

\* The If-Modified-Since test of send_head: the header is present without
\* If-None-Match, parses to a UTC time, and the file is not newer.
not_modified(hdr, mtime) ==
    hdr.ims = "utc" /\ ~hdr.inm /\ mtime <= hdr.imstime

\* send_head from the open() call on, with the type guess_type returned.
open_and_send(h, fsys, hdr, path, ctype) ==
    IF EndsWithSlash(path) THEN send_error(h, 404)
    ELSE IF ~can_open(fsys, path) THEN send_error(h, 404)
    ELSE IF not_modified(hdr, fsys[path].mtime) THEN end_headers(send_response(h, 304))
    ELSE [end_headers(
              send_header(
                  send_header(
                      send_header(send_response(h, 200), "Content-type", ctype),
                      "Content-Length", "st_size"),
                  "Last-Modified", "st_mtime"))
          EXCEPT !.opened = TRUE, !.body = FileBody(fsys[path].data), !.ctype = ctype]

\* send_head from the guess_type call on: the file at `path`.
send_file_head(h, fsys, map, types, hdr, path) ==
    open_and_send(h, fsys, hdr, path, guess_type(map, types, path))

\* send_head: a directory without a trailing slash is redirected, one with
\* it serves its index file or its listing; anything else is a file.
\* h.opened says that a file object was returned, h.body holds its content.
\* The path send_head goes on with: for a directory requested with its
\* trailing slash, its index.html or index.htm when one is a file.
index_or_path(fsys, path) ==
    IF ~isdir(fsys, path) THEN path
    ELSE IF isfile(fsys, path, IndexHtml) THEN StripSlashes(path) \o <<"/">> \o IndexHtml
    ELSE IF isfile(fsys, path, IndexHtm) THEN StripSlashes(path) \o <<"/">> \o IndexHtm
    ELSE path

send_head_at(h, fsys, map, types, hdr, path, url) ==
    IF isdir(fsys, path) /\ ~EndsWithSlash(url)
    THEN end_headers(
             send_header(
                 send_header(send_response(h, 301), "Location", "path/"),
                 "Content-Length", "0"))
    ELSE IF isdir(fsys, path) /\ index_or_path(fsys, path) = path
    THEN list_directory(h, fsys, path)
    ELSE send_file_head(h, fsys, map, types, hdr, index_or_path(fsys, path))

send_head(h, fsys, map, types, hdr) ==
    send_head_at(h, fsys, map, types, hdr,
                 translate_path(h.path), Before(Before(h.path, "#"), "?"))

\* A copy that stops one byte short.
copyfile_short(body) ==
    IF body.data = <<>> THEN body
    ELSE [body EXCEPT !.data = SubSeq(body.data, 1, Len(body.data) - 1)]

\* copyfile: shutil.copyfileobj(source, outputfile).
copyfile(body) == body

\* do_GET: send_head, then the file object copied to the socket.
copy_opened(h) == IF h.opened THEN [h EXCEPT !.body = copyfile(h.body)] ELSE h

do_GET(h, fsys, map, types, hdr) == copy_opened(send_head(h, fsys, map, types, hdr))

\* do_HEAD: send_head, the file object closed unread.
close_opened(h) == IF h.opened THEN [h EXCEPT !.body = NoBody] ELSE h

do_HEAD(h, fsys, map, types, hdr) == close_opened(send_head(h, fsys, map, types, hdr))

\* A handler that has a do_ method for every command.
has_method_any(command) == TRUE

\* hasattr(self, 'do_' + self.command): CORSHandler inherits do_GET and
\* do_HEAD and defines no other.
has_method(command) == command \in {"GET", "HEAD"}

\* handle_one_request: the handler's fields once the request is answered.
\* handle_one_request after parse_request: mname = 'do_' + self.command.
dispatch(p, fsys, map, types, hdr) ==
    IF ~p.ok THEN p.h
    ELSE IF ~has_method(p.h.command) THEN send_error(p.h, 501)
    ELSE IF p.h.command = "HEAD" THEN do_HEAD(p.h, fsys, map, types, hdr)
    ELSE do_GET(p.h, fsys, map, types, hdr)

handle_one_request(req, fsys, map, types) ==
    IF req.line = "toolong"
    THEN send_error([NewHandler EXCEPT !.command = ""], 414)
    ELSE IF req.line = "eof" THEN NewHandler
    ELSE dispatch(parse_request(NewHandler, req), fsys, map, types, req.hdr)

-----------------------------------------------------------------------------
(* The running program *)

VARIABLES
    environ,         \* the PORT entry of os.environ
    types_map,       \* the platform's mimetypes table
    fs,              \* the files under the served root
    pc,              \* the line of server.py being executed, or "exit"
    PORT,            \* the module-level PORT: <<>> until line 5 has run
    extensions_map,  \* CORSHandler.extensions_map: empty until the class body has run
    server_address,  \* httpd's bound port: <<>> while unbound
    stdout,          \* the ports of the banner lines printed
    exit,            \* "" while running, else what ended the process
    pending,         \* connections waiting in the listen queue
    accepted,        \* connections accepted so far
    handlers,        \* the request handlers that are running
    wire,            \* the writes to the sockets still open, in order
    hadError         \* some exchange has ended in an error response or an exception

vars == <<environ, types_map, fs, pc, PORT, extensions_map, server_address, stdout,
          exit, pending, accepted, handlers, wire, hadError>>

startup_vars == <<PORT, extensions_map, server_address, stdout>>
serve_vars == <<pending, accepted, handlers, wire, hadError>>
world_vars == <<environ, types_map, fs>>

Init ==
    /\ environ \in PortEnvValues
    /\ types_map \in PlatformTables
    /\ fs = ServedRoot
    /\ pc = "line5"
    /\ PORT = <<>>
    /\ extensions_map = <<>>
    /\ server_address = <<>>
    /\ stdout = <<>>
    /\ exit = ""
    /\ pending = 0
    /\ accepted = 0
    /\ handlers = {}
    /\ wire = <<>>
    /\ hadError = FALSE

\* Line 5 succeeds: PORT is bound to the parsed integer.
Line5_ParsePort ==
    /\ pc = "line5"
    /\ ParsePort(environ).ok
    /\ PORT' = <<ParsePort(environ).val>>
    /\ pc' = "line7"
    /\ UNCHANGED <<extensions_map, server_address, stdout, exit>>
    /\ UNCHANGED <<serve_vars, world_vars>>

\* Line 5 raises ValueError: the module stops with a traceback.
Line5_ValueError ==
    /\ pc = "line5"
    /\ ~ParsePort(environ).ok
    /\ pc' = "exit"
    /\ exit' = "ValueError"
    /\ UNCHANGED <<startup_vars, serve_vars, world_vars>>

\* Lines 7-18: the class statement builds extensions_map and end_headers.
Line7_ClassDef ==
    /\ pc = "line7"
    /\ extensions_map' = ClassExtensionsMap
    /\ pc' = "line20"
    /\ UNCHANGED <<PORT, server_address, stdout, exit>>
    /\ UNCHANGED <<serve_vars, world_vars>>

\* The port httpd.server_address holds after a successful bind(("", port)):
\* port 0 asks the operating system for a free port.
bound_port(port) == IF port = 0 THEN EphemeralPort ELSE port

\* Line 20: TCPServer(("", PORT), CORSHandler) binds and listens.
Line20_Bind ==
    /\ pc = "line20"
    /\ PORT[1] \in 0..MaxPortNumber
    /\ server_address' = <<bound_port(PORT[1])>>
    /\ pc' = "line21"
    /\ UNCHANGED <<PORT, extensions_map, stdout, exit>>
    /\ UNCHANGED <<serve_vars, world_vars>>

\* Line 20: bind refuses a port outside 0..65535 (OverflowError).
Line20_OverflowError ==
    /\ pc = "line20"
    /\ PORT[1] \notin 0..MaxPortNumber
    /\ pc' = "exit"
    /\ exit' = "OverflowError"
    /\ UNCHANGED <<startup_vars, serve_vars, world_vars>>

\* Line 20: bind fails with OSError (address in use, permission denied);
\* TCPServer.__init__ closes the socket and re-raises.
Line20_OSError ==
    /\ pc = "line20"
    /\ PORT[1] \in 0..MaxPortNumber
    /\ pc' = "exit"
    /\ exit' = "OSError"
    /\ UNCHANGED <<startup_vars, serve_vars, world_vars>>

\* The port the banner's f-string interpolates: {PORT}.
banner_port(port, address) == port[1]

\* Line 21: print(f"Eliza Town server running at http://localhost:{PORT}").
Line21_Banner ==
    /\ pc = "line21"
    /\ stdout' = Append(stdout, banner_port(PORT, server_address))
    /\ pc' = "line22"
    /\ UNCHANGED <<PORT, extensions_map, server_address, exit>>
    /\ UNCHANGED <<serve_vars, world_vars>>

\* A client connects; the kernel queues the connection once line 20 has
\* put the socket in the listening state.
Connect ==
    /\ pc \in {"line21", "line22"}
    /\ pending + accepted < MaxConns
    /\ pending' = pending + 1
    /\ UNCHANGED <<pc, exit, accepted, handlers, wire, hadError>>
    /\ UNCHANGED <<startup_vars, world_vars>>

\* A serve loop whose process_request hands the connection to a thread.
loop_free_threaded(hs) == TRUE

\* serve_forever calls _handle_request_noblock, whose process_request runs
\* finish_request and shutdown_request inline: the loop is back at select()
\* only when no handler is running.
loop_free(hs) == hs = {}

\* Line 22, one turn of serve_forever: get_request accepts a connection and
\* finish_request constructs the handler, which blocks in rfile.readline.
Accept ==
    /\ pc = "line22"
    /\ pending > 0
    /\ loop_free(handlers)
    /\ pending' = pending - 1
    /\ accepted' = accepted + 1
    /\ handlers' = handlers \cup
           {[conn |-> accepted + 1, stage |-> "readline", req |-> ReqBlank,
             h |-> NewHandler, exc |-> FALSE]}
    /\ UNCHANGED <<pc, exit, wire, hadError>>
    /\ UNCHANGED <<startup_vars, world_vars>>

\* The client's request arrives: rfile.readline and the header reads return.
Readline(hd, req) ==
    /\ pc = "line22"
    /\ hd \in handlers
    /\ hd.stage = "readline"
    /\ handlers' = (handlers \ {hd}) \cup {[hd EXCEPT !.req = req, !.stage = "parse"]}
    /\ UNCHANGED <<pc, exit, pending, accepted, wire, hadError>>
    /\ UNCHANGED <<startup_vars, world_vars>>

answered(hd, h) ==
    [hd EXCEPT !.h = h, !.stage = IF h.body.kind = "none" THEN "done" ELSE "sent_head"]

HandleAnswer(hd, h) ==
    /\ handlers' = (handlers \ {hd}) \cup {answered(hd, h)}
    /\ wire' = IF h.flushed THEN Append(wire, <<hd.conn, "head">>) ELSE wire

\* handle_one_request parses the request and, through send_head or
\* send_error, writes the header block (if the response has one).
Handle(hd) ==
    /\ pc = "line22"
    /\ hd \in handlers
    /\ hd.stage = "parse"
    /\ HandleAnswer(hd, handle_one_request(hd.req, fs, extensions_map, types_map))
    /\ UNCHANGED <<pc, exit, pending, accepted, hadError>>
    /\ UNCHANGED <<startup_vars, world_vars>>

\* The body (file content, listing or error page) is written to the socket.
WriteBody(hd) ==
    /\ pc = "line22"
    /\ hd \in handlers
    /\ hd.stage = "sent_head"
    /\ handlers' = (handlers \ {hd}) \cup {[hd EXCEPT !.stage = "done"]}
    /\ wire' = Append(wire, <<hd.conn, "body">>)
    /\ UNCHANGED <<pc, exit, pending, accepted, hadError>>
    /\ UNCHANGED <<startup_vars, world_vars>>

\* The client has gone away: the write raises BrokenPipeError or
\* ConnectionResetError out of the handler.
WriteBodyBrokenPipe(hd) ==
    /\ pc = "line22"
    /\ hd \in handlers
    /\ hd.stage = "sent_head"
    /\ handlers' = (handlers \ {hd}) \cup {[hd EXCEPT !.stage = "done", !.exc = TRUE]}
    /\ UNCHANGED <<pc, exit, pending, accepted, wire, hadError>>
    /\ UNCHANGED <<startup_vars, world_vars>>

\* A serve loop that lets a handler's exception escape.
after_handler_exception_raise == "exit"

\* _handle_request_noblock: except Exception: handle_error(...);
\* shutdown_request(...) - the traceback is printed and the loop goes on.
after_handler_exception == "line22"

\* The handler returns (or raises); shutdown_request closes the connection.
Finish(hd) ==
    /\ pc = "line22"
    /\ hd \in handlers
    /\ hd.stage = "done"
    /\ handlers' = handlers \ {hd}
    /\ wire' = SelectSeq(wire, LAMBDA w : w[1] # hd.conn)
    /\ hadError' = (hadError \/ hd.exc \/ hd.h.code >= 400)
    /\ pc' = IF hd.exc THEN after_handler_exception ELSE "line22"
    /\ exit' = IF hd.exc /\ after_handler_exception = "exit" THEN "Exception" ELSE exit
    /\ UNCHANGED <<pending, accepted>>
    /\ UNCHANGED <<startup_vars, world_vars>>

\* A termination signal (KeyboardInterrupt) ends serve_forever; the with
\* statement closes the listening socket.
Signal ==
    /\ pc = "line22"
    /\ pc' = "exit"
    /\ exit' = "KeyboardInterrupt"
    /\ handlers' = {}
    /\ wire' = <<>>
    /\ pending' = 0
    /\ UNCHANGED <<accepted, hadError>>
    /\ UNCHANGED <<startup_vars, world_vars>>

Next ==
    \/ Line5_ParsePort
    \/ Line5_ValueError
    \/ Line7_ClassDef
    \/ Line20_Bind
    \/ Line20_OverflowError
    \/ Line20_OSError
    \/ Line21_Banner
    \/ Connect
    \/ Accept
    \/ \E hd \in handlers, req \in Requests : Readline(hd, req)
    \/ \E hd \in handlers : Handle(hd)
    \/ \E hd \in handlers : WriteBody(hd)
    \/ \E hd \in handlers : WriteBodyBrokenPipe(hd)
    \/ \E hd \in handlers : Finish(hd)
    \/ Signal

Spec == Init /\ [][Next]_vars

\* Readline is enabled: a handler is blocked in rfile.readline.
AwaitingRequest == pc = "line22" /\ \E hd \in handlers : hd.stage = "readline"

\* A Readline step, told by its effect: a handler blocked in readline has
\* its request.
RequestArrives ==
    \E hd \in handlers :
        /\ hd.stage = "readline"
        /\ \E hd2 \in handlers' : hd2.conn = hd.conn /\ hd2.stage = "parse"

\* Handle is enabled: a handler has read its request.
RequestRead == pc = "line22" /\ \E hd \in handlers : hd.stage = "parse"

\* A Handle step, told by its effect: a handler that had read its request
\* has written its header block or has nothing to write.
RequestHandled ==
    \E hd \in handlers :
        /\ hd.stage = "parse"
        /\ \E hd2 \in handlers' :
               hd2.conn = hd.conn /\ hd2.stage \in {"sent_head", "done"}

\* The serve loop and the handlers make progress: serve_forever takes its
\* next turn, a connected client sends its request or closes,
\* handle_one_request runs, the socket writes complete or fail, and the
\* handler returns.  Weak fairness of Readline and of Handle is written out
\* as []<>~ENABLED \/ []<>step, with the enabling condition and the step
\* given by the handler's stage.
FairSpec ==
    /\ Spec
    /\ WF_vars(Accept)
    /\ ([]<>(~AwaitingRequest) \/ []<><<RequestArrives>>_vars)
    /\ ([]<>(~RequestRead) \/ []<><<RequestHandled>>_vars)
    /\ WF_vars(\E hd \in handlers : WriteBody(hd) \/ WriteBodyBrokenPipe(hd))
    /\ WF_vars(\E hd \in handlers : Finish(hd))

-----------------------------------------------------------------------------
(* Properties *)

\* The handlers that have read a request and answered it.
Answered == {hd \in handlers : hd.stage \in {"sent_head", "done"}}

\* The handlers whose exchange is complete: the response was written and the
\* client was there to receive it.
Completed == {hd \in handlers : hd.stage = "done" /\ ~hd.exc}

\* The handler sent a response (nothing is sent for an empty request line).
Responded(hd) == hd.h.code # 0

HasHeader(h, k, v) == \E i \in 1..Len(h.head) : h.head[i].name = k /\ h.head[i].value = v

HeaderValue(h, k) ==
    IF \E i \in 1..Len(h.head) : h.head[i].name = k
    THEN h.head[CHOOSE i \in 1..Len(h.head) : h.head[i].name = k].value
    ELSE "absent"

HasCorsHeaders(h) ==
    /\ HasHeader(h, "Access-Control-Allow-Origin", "*")
    /\ HasHeader(h, "Cache-Control", "no-cache")

\* A request line of three words with version HTTP/1.0 or HTTP/1.1, and a
\* header block within the limits.
WellFormed1x(req) ==
    /\ req.line = "text"
    /\ req.nwords = 3
    /\ req.vproto = "HTTP"
    /\ req.vnums \in {<<1, 0>>, <<1, 1>>}
    /\ ~req.hdr.toolarge

\* The request's target is the relative URL of a file under the served root.
NamesFile(req) ==
    req.line = "text" /\ req.nwords >= 2 /\ req.target \in DOMAIN fs /\ fs[req.target].kind = "file"

ThreeExts == {E_gltf, E_glb, E_bin}

FixedType(ext) ==
    IF ext = E_gltf THEN "model/gltf+json"
    ELSE IF ext = E_glb THEN "model/gltf-binary"
    ELSE "application/octet-stream"

\* What the platform answers for an extension without the three entries: the
\* inherited table, then mimetypes' table (each by the extension as written,
\* then lower-cased), then the generic binary type.
PlatformDefault(ext) ==
    IF ext \in DOMAIN BaseExtensionsMap THEN BaseExtensionsMap[ext]
    ELSE IF StrLower(ext) \in DOMAIN BaseExtensionsMap THEN BaseExtensionsMap[StrLower(ext)]
    ELSE IF ext \in DOMAIN types_map THEN types_map[ext]
    ELSE IF StrLower(ext) \in DOMAIN types_map THEN types_map[StrLower(ext)]
    ELSE "application/octet-stream"

\* The handlers that serve a file under its own URL with a 200 header block.
ServingFile ==
    {hd \in Answered : NamesFile(hd.req) /\ hd.h.status_line = 200}

\* C2 as stated: a served file with extension .gltf, .glb or .bin gets its
\* fixed Content-Type, and a file with any other extension gets what the
\* platform default answers for that extension.
C2_OtherExtensionsFollowPlatform ==
    \A hd \in ServingFile :
        LET ext == splitext_ext(hd.req.target)
        IN  HeaderValue(hd.h, "Content-type") =
                IF ext \in ThreeExts THEN FixedType(ext) ELSE PlatformDefault(ext)

\* C2 amended: a served file with extension .gltf, .glb or .bin gets its
\* fixed Content-Type whatever the platform table says; so does a file whose
\* extension differs from one of the three only in letter case (and has no
\* entry of its own in the inherited table); every other extension gets the
\* platform default's answer, the generic binary type when it is unknown.
C2_ContentTypeByExtension ==
    \A hd \in ServingFile :
        LET ext == splitext_ext(hd.req.target)
        IN  HeaderValue(hd.h, "Content-type") =
                IF ext \in ThreeExts THEN FixedType(ext)
                ELSE IF ext \notin DOMAIN BaseExtensionsMap /\ StrLower(ext) \in ThreeExts
                     THEN FixedType(StrLower(ext))
                ELSE PlatformDefault(ext)

\* scene.gltf served as model/gltf+json on a platform whose table says
\* application/json.
C2_Witness ==
    \E hd \in ServingFile :
        /\ hd.req.target = F_scene
        /\ types_map[E_gltf] = "application/json"
        /\ HeaderValue(hd.h, "Content-type") = "model/gltf+json"

\* C3 as stated: a GET to the relative URL of any file under the served root
\* returns status 200 with the file's bytes as the body.
C3_EveryFileGetReturnsContent ==
    \A hd \in Completed :
        (NamesFile(hd.req) /\ hd.req.command = "GET") =>
            /\ hd.h.status_line = 200
            /\ hd.h.body = FileBody(fs[hd.req.target].data)

\* C3 amended: a well-formed HTTP/1.x GET to the relative URL of a file that
\* can be opened, without an If-Modified-Since date at or after the file's
\* modification time (or with If-None-Match beside it), returns status 200
\* with the file's bytes as the body.
C3_ReadableFileGetReturnsContent ==
    \A hd \in Completed :
        ( /\ NamesFile(hd.req) /\ hd.req.command = "GET"
          /\ WellFormed1x(hd.req)
          /\ fs[hd.req.target].perm
          /\ ~( /\ hd.req.hdr.ims = "utc" /\ ~hd.req.hdr.inm
                /\ fs[hd.req.target].mtime <= hd.req.hdr.imstime) ) =>
            /\ hd.h.status_line = 200
            /\ hd.h.body = FileBody(fs[hd.req.target].data)

\* GET /m.glb answered 200 with the five bytes of the file.
C3_Witness ==
    \E hd \in Completed :
        /\ hd.req.command = "GET" /\ hd.req.target = F_model /\ WellFormed1x(hd.req)
        /\ hd.h.status_line = 200
        /\ hd.h.body.data = <<71, 76, 84, 70, 2>>

\* Targets that name no entry, and targets whose entry cannot be opened.
NoEntryTargets == {F_missing}
UnopenableFileTargets == {F_secret}
UnopenableDirTargets == {D_locked, D_locked \o <<"/">>}

\* C4 as stated: a GET or HEAD whose path names no entry, or an entry that
\* cannot be opened, is answered 404 without file content.
C4_MissingOrUnopenableIs404 ==
    \A hd \in Answered :
        ( /\ hd.req.line = "text" /\ hd.req.nwords >= 2
          /\ hd.req.command \in ReadMethods
          /\ hd.req.target \in NoEntryTargets \cup UnopenableFileTargets
                               \cup UnopenableDirTargets ) =>
            /\ hd.h.code = 404
            /\ hd.h.body.kind # "file"

\* C4 amended: a well-formed HTTP/1.x GET or HEAD whose path names no entry,
\* a file that cannot be opened, or - requested with its trailing slash - a
\* directory that cannot be listed, is answered 404 without file content.  (A
\* directory requested without the trailing slash is redirected with 301
\* before it is opened.)
C4_WellFormedMissingIs404 ==
    \A hd \in Answered :
        ( /\ WellFormed1x(hd.req)
          /\ hd.req.command \in ReadMethods
          /\ hd.req.target \in NoEntryTargets \cup UnopenableFileTargets
                               \cup {D_locked \o <<"/">>} ) =>
            /\ hd.h.status_line = 404
            /\ hd.h.body.kind # "file"

\* A 404 for the directory that cannot be listed, and so not only for a
\* missing name.
C4_Witness ==
    \E hd \in Answered :
        /\ WellFormed1x(hd.req) /\ hd.req.command = "GET"
        /\ hd.req.target = D_locked \o <<"/">>
        /\ hd.h.status_line = 404

\* The integer a PORT value denotes.
DenotedPort(env) ==
    IF env = EnvOf(<<"8", "0", "8", "0">>) THEN 8080
    ELSE IF env = EnvOf(<<"8", "0">>) THEN 80
    ELSE IF env = EnvOf(<<"0">>) THEN 0
    ELSE 70000

ValidIntegerEnvs ==
    {EnvOf(<<"8", "0", "8", "0">>), EnvOf(<<"8", "0">>), EnvOf(<<"0">>),
     EnvOf(<<"7", "0", "0", "0", "0">>)}

\* Start-up is over: the module is past line 20 or has stopped.
StartupOver == pc \in {"line21", "line22", "exit"}

\* C5 as stated: with PORT unset the port bound is 10000, with a valid
\* integer string it is exactly that integer, and with anything else
\* start-up fails and no port is ever bound.
C5_BindsConfiguredPort ==
    /\ (~environ.set /\ server_address # <<>>) => server_address = <<10000>>
    /\ (environ \in ValidIntegerEnvs /\ server_address # <<>>) =>
           server_address = <<DenotedPort(environ)>>
    /\ (environ.set /\ environ \notin ValidIntegerEnvs) =>
           /\ server_address = <<>>
           /\ StartupOver => exit = "ValueError"

\* C5 amended: with PORT unset the port bound is 10000; with a valid integer
\* string in 1..65535 it is exactly that integer; with 0 the operating system
\* chooses the port; with an integer outside 0..65535 start-up fails and no
\* port is bound; with anything that is not an integer start-up fails and no
\* port is ever bound, 10000 included.  (A bind the system refuses also ends
\* start-up.)
C5_BindsConfiguredPortInRange ==
    /\ (~environ.set /\ server_address # <<>>) => server_address = <<10000>>
    /\ (environ \in ValidIntegerEnvs /\ server_address # <<>>) =>
           /\ DenotedPort(environ) \in 0..65535
           /\ DenotedPort(environ) # 0 => server_address = <<DenotedPort(environ)>>
           /\ DenotedPort(environ) = 0 => server_address[1] \in 1..65535
    /\ (environ \in ValidIntegerEnvs /\ DenotedPort(environ) \notin 0..65535 /\ StartupOver) =>
           exit = "OverflowError"
    /\ (environ.set /\ environ \notin ValidIntegerEnvs) =>
           /\ server_address = <<>>
           /\ StartupOver => exit = "ValueError"

\* PORT=8080 and the server serving on port 8080.
C5_Witness ==
    /\ environ = EnvOf(<<"8", "0", "8", "0">>)
    /\ pc = "line22"
    /\ server_address = <<8080>>

C7_OtherMethodsRejected ==
    \A hd \in Answered :
        ( /\ hd.req.line = "text" /\ hd.req.nwords = 3
          /\ hd.req.vproto = "HTTP" /\ Len(hd.req.vnums) = 2
          /\ hd.req.command \notin ReadMethods ) =>
            /\ hd.h.code \in {405, 501}
            /\ hd.h.body.kind # "file"
            /\ fs = ServedRoot

\* C7 amended: every well-formed HTTP/1.x request whose method is neither
\* GET nor HEAD is answered 501 (no do_<METHOD> is defined; 405 is never
\* produced), without file content, the files left as they were.  (A
\* malformed one is answered 400, 431 or 505 first.)
C7_WellFormedOtherMethodsRejected ==
    \A hd \in Answered :
        (WellFormed1x(hd.req) /\ hd.req.command \notin ReadMethods) =>
            /\ hd.h.status_line = 501
            /\ hd.h.body.kind # "file"
            /\ fs = ServedRoot

\* POST /m.glb HTTP/1.0 answered 501 with the error page.
C7_Witness ==
    \E hd \in Completed :
        /\ WellFormed1x(hd.req) /\ hd.req.command = "POST" /\ hd.req.target = F_model
        /\ hd.h.status_line = 501
        /\ hd.h.body.kind = "error"

\* The platform's table with the three glTF entries applied.
ExpectedExtensionsMap ==
    [e \in {E_gz, E_Z, E_bz2, E_xz, E_gltf, E_glb, E_bin} |->
        IF e = E_gltf THEN "model/gltf+json"
        ELSE IF e = E_glb THEN "model/gltf-binary"
        ELSE IF e = E_bin THEN "application/octet-stream"
        ELSE BaseExtensionsMap[e]]

\* C8: once the class body has run, CORSHandler.extensions_map is the
\* inherited table with the three glTF entries applied, in every state -
\* whatever requests were handled and however they ended.
C8_TableIsReadOnly ==
    (pc \notin {"line5", "line7"} /\ exit # "ValueError") =>
        extensions_map = ExpectedExtensionsMap

\* The table intact after a file was served and an error was answered.
C8_Witness ==
    /\ hadError
    /\ \E hd \in Completed : hd.h.status_line = 200 /\ hd.h.body.kind = "file"
    /\ extensions_map = ExpectedExtensionsMap

\* The writes of one connection are contiguous on the wire.
NoInterleaving ==
    \A i, j, k \in 1..Len(wire) :
        (i < j /\ j < k /\ wire[i][1] = wire[k][1]) => wire[j][1] = wire[i][1]

\* C9: at most one handler runs at a time; while one runs - however long it
\* waits for its client - no connection is accepted; and the writes of two
\* connections never interleave.
C9_SingleThreaded ==
    /\ Cardinality(handlers) <= 1
    /\ handlers # {} => ~ENABLED Accept
    /\ NoInterleaving

\* A handler waiting for its request while another connection waits in the
\* listen queue.
C9_Witness ==
    /\ pending > 0
    /\ \E hd \in handlers : hd.stage = "readline"

\* C10 as stated: the banner is printed once at most, only after the bind
\* and with the port actually bound, before any connection is handled; the
\* serving state implies the banner; a failed start-up prints no banner,
\* binds nothing and handles nothing.
C10_BannerAfterBind ==
    /\ Len(stdout) <= 1
    /\ stdout # <<>> => (server_address # <<>> /\ stdout[1] = server_address[1])
    /\ accepted > 0 => Len(stdout) = 1
    /\ pc = "line22" => Len(stdout) = 1
    /\ exit \in {"ValueError", "OverflowError", "OSError"} =>
           (stdout = <<>> /\ accepted = 0 /\ server_address = <<>>)

=============================================================================
